---- MODULE Spec2Model ----
(***************************************************************************)
(* Post-processing pipeline of deeplabcut.pose_estimation_pytorch:         *)
(* data/postprocessor.py (stages, ComposePostprocessor, builders).         *)
(*                                                                         *)
(* Values.  A numpy array is [tail |-> shape[1:], rows |-> <<row, ...>>],  *)
(* so its shape is <<Len(rows)>> \o tail and a zero-row array keeps its    *)
(* tail shape.  Python's predictions argument is either a list of          *)
(* per-candidate records or a dict of arrays: [kind |-> "list" | "dict",   *)
(* items |-> function].  A context is a function from context keys.        *)
(* A call returns [exc, predictions, context]; exc = "none" on a normal    *)
(* return and the Python exception class otherwise.                        *)
(*                                                                         *)
(* VideoSpec is the VideoIterator of apis/analyze_videos.py under any      *)
(* order of __next__, get_context and set_context calls.                   *)
(***************************************************************************)
EXTENDS Integers, Sequences, FiniteSets, TLC

\* ------------------------------------------------------------------ bounds
MaxCands == 2        \* candidates in a raw prediction list
MaxRows == 2         \* leading rows of one candidate's array / of a dict array
NumBodyparts == 2    \* keypoints per individual in the enumerated inputs
MaxInd == 3          \* largest max_individuals target
MaxStages == 2       \* components of an enumerated ComposePostprocessor
NFrames == 3         \* frames of the video a VideoIterator reads

\* ------------------------------------------------------------------ values
EmptyMap == <<>>

Array(tail, rows) == [tail |-> tail, rows |-> rows]

ArrLen(a) == Len(a.rows)

Shape(a) == <<ArrLen(a)>> \o a.tail

RECURSIVE Fill(_, _)
\* an array element of shape `tail` whose every entry is v
Fill(tail, v) ==
    IF tail = <<>> THEN v
    ELSE [i \in 1..Head(tail) |-> Fill(Tail(tail), v)]

\* a zero-row array that forgets the tail of the requested shape
np_zeros_flat(shape) == Array(<<>>, <<>>)

\* np.zeros(shape), used with a leading 0 only
np_zeros(shape) == Array(Tail(shape), <<>>)

RECURSIVE FlattenRows(_)
FlattenRows(arrs) ==
    IF arrs = <<>> THEN <<>>
    ELSE Head(arrs).rows \o FlattenRows(Tail(arrs))

\* np.concatenate(arrs) along axis 0 is defined when there is at least one
\* array and all tail shapes agree
CanConcatenate(arrs) ==
    /\ Len(arrs) > 0
    /\ \A i \in 1..Len(arrs) : arrs[i].tail = arrs[1].tail

np_concatenate(arrs) == Array(arrs[1].tail, FlattenRows(arrs))

List(items) == [kind |-> "list", items |-> items]

Dict(items) == [kind |-> "dict", items |-> items]

NoValue == [kind |-> "none", items |-> EmptyMap]

\* len(predictions)
PyLen(p) == Cardinality(DOMAIN p.items)

Ok(p, c) == [exc |-> "none", predictions |-> p, context |-> c]

Raise(e) == [exc |-> e, predictions |-> NoValue, context |-> EmptyMap]

\* Optional[T]
None == [none |-> TRUE]

Some(v) == [none |-> FALSE, val |-> v]

\* ------------------------------------------------------ ConcatenateOutputs
\* __init__: the object, or the exception the constructor raises
ConcatenateOutputs_init(keys_to_concatenate, empty_shapes, create_empty_outputs) ==
    LET self == [type |-> "ConcatenateOutputs",
                 keys_to_concatenate |-> keys_to_concatenate,
                 empty_shapes |-> empty_shapes,
                 create_empty_outputs |-> create_empty_outputs]
    IN  IF create_empty_outputs
        THEN IF DOMAIN keys_to_concatenate = {}
             THEN [exc |-> "none", obj |-> self]           \* all([]) is True
             ELSE IF empty_shapes.none
             THEN [exc |-> "TypeError", obj |-> self]      \* k in None
             ELSE IF \A k \in DOMAIN keys_to_concatenate : k \in DOMAIN empty_shapes.val
             THEN [exc |-> "none", obj |-> self]
             ELSE [exc |-> "ValueError", obj |-> self]
        ELSE [exc |-> "none", obj |-> self]

HasPath(p, head_key) ==
    /\ head_key[1] \in DOMAIN p
    /\ head_key[2] \in DOMAIN p[head_key[1]]

\* a comprehension that walks the candidates last to first
GatheredReversed(predictions, head_key) ==
    [i \in 1..Len(predictions.items) |->
        predictions.items[Len(predictions.items) + 1 - i][head_key[1]][head_key[2]]]

\* [p[head_name][val_name] for p in predictions]
Gathered(predictions, head_key) ==
    [i \in 1..Len(predictions.items) |-> predictions.items[i][head_key[1]][head_key[2]]]

ConcatenateOutputs_call(self, predictions, context) ==
    LET keys == DOMAIN self.keys_to_concatenate
    IN  IF PyLen(predictions) = 0
        THEN IF keys = {} THEN Ok(Dict(EmptyMap), context)
             ELSE IF self.empty_shapes.none THEN Raise("TypeError")
             ELSE IF ~(keys \subseteq DOMAIN self.empty_shapes.val) THEN Raise("KeyError")
             ELSE Ok(Dict([name \in keys |->
                       np_zeros(<<0>> \o self.empty_shapes.val[name])]), context)
        ELSE IF keys = {} THEN Ok(Dict(EmptyMap), context)
        ELSE IF predictions.kind # "list" THEN Raise("TypeError")  \* str[str]
        ELSE IF \E i \in 1..Len(predictions.items), k \in keys :
                   ~HasPath(predictions.items[i], self.keys_to_concatenate[k])
        THEN Raise("KeyError")
        ELSE IF \E k \in keys :
                   ~CanConcatenate(Gathered(predictions, self.keys_to_concatenate[k]))
        THEN Raise("ValueError")
        ELSE Ok(Dict([name \in keys |->
                  np_concatenate(Gathered(predictions, self.keys_to_concatenate[name]))]),
                context)

\* -------------------------------------------------------------- PadOutputs
PadOutputs_init(max_individuals, pad_value) ==
    [type |-> "PadOutputs", max_individuals |-> max_individuals,
     pad_value |-> pad_value]

\* padding = -np.ones((pad_size, *tail_shape)): the configured pad_value is
\* not read
Padding(pad_size, tail_shape) ==
    Array(tail_shape, [i \in 1..pad_size |-> Fill(tail_shape, -1)])

PadOne(self, output, name) ==
    IF ArrLen(output) < self.max_individuals[name]
    THEN np_concatenate(<<output,
             Padding(self.max_individuals[name] - ArrLen(output), output.tail)>>)
    ELSE output

PadOutputs_call(self, predictions, context) ==
    IF predictions.kind # "dict"
    THEN IF PyLen(predictions) = 0 THEN Ok(predictions, context)
         ELSE Raise("TypeError")                  \* list[dict]
    ELSE IF ~(DOMAIN predictions.items \subseteq DOMAIN self.max_individuals)
    THEN Raise("KeyError")
    ELSE Ok(Dict([name \in DOMAIN predictions.items |->
                     PadOne(self, predictions.items[name], name)]), context)

\* -------------------------------------------------------- RescaleAndOffset
\* the names the class body binds besides its methods
RescaleAndOffset_attrs == {"Mode"}

Mode == {"BBOX_XYWH", "KEYPOINT", "KEYPOINT_TD"}

\* the keyword parameters of __init__
RescaleAndOffset_params == {"keys_to_rescale", "mode"}

\* RescaleAndOffset(keys_to_rescale=..., <kwarg>=RescaleAndOffset.<enum>.<member>):
\* the attribute lookup comes first, then the call binds the keywords
RescaleAndOffset_init(keys_to_rescale, kwarg, enum, member) ==
    LET self == [type |-> "RescaleAndOffset",
                 keys_to_rescale |-> keys_to_rescale, mode |-> member]
    IN  IF enum \notin RescaleAndOffset_attrs \/ member \notin Mode
        THEN [exc |-> "AttributeError", obj |-> self]
        ELSE IF {"keys_to_rescale", kwarg} # RescaleAndOffset_params
        THEN [exc |-> "TypeError", obj |-> self]
        ELSE [exc |-> "none", obj |-> self]

\* a point rescaled with the axes of the pair swapped
RescalePointSwapped(point, scale, offset) ==
    [j \in 1..Len(point) |->
        IF j = 1 THEN point[1] * scale[2] + offset[2]
        ELSE IF j = 2 THEN point[2] * scale[1] + offset[1]
        ELSE point[j]]

\* one (x, y, ...) point under one scale/offset pair: channels past the
\* second are copied
RescalePoint(point, scale, offset) ==
    [j \in 1..Len(point) |->
        IF j = 1 THEN point[1] * scale[1] + offset[1]
        ELSE IF j = 2 THEN point[2] * scale[2] + offset[2]
        ELSE point[j]]

\* a row whose extents are translated by the offset as well
RescaleBboxTranslated(row, scales, offsets) ==
    [j \in 1..Len(row) |->
        IF j = 1 THEN row[1] * scales[1] + offsets[1]
        ELSE IF j = 2 THEN row[2] * scales[2] + offsets[2]
        ELSE IF j = 3 THEN row[3] * scales[1] + offsets[1]
        ELSE IF j = 4 THEN row[4] * scales[2] + offsets[2]
        ELSE row[j]]

\* one (x, y, w, h) row under the global scale/offset pair
RescaleBbox(row, scales, offsets) ==
    [j \in 1..Len(row) |->
        IF j = 1 THEN row[1] * scales[1] + offsets[1]
        ELSE IF j = 2 THEN row[2] * scales[2] + offsets[2]
        ELSE IF j = 3 THEN row[3] * scales[1]
        ELSE IF j = 4 THEN row[4] * scales[2]
        ELSE row[j]]

\* len(outputs) != len(scales) != len(offsets), as a chained comparison
MismatchChained(outputs, scales, offsets) ==
    /\ ArrLen(outputs) # Len(scales)
    /\ Len(scales) # Len(offsets)

\* not len(outputs) == len(scales) == len(offsets)
Mismatch(outputs, scales, offsets) ==
    ~(/\ ArrLen(outputs) = Len(scales)
      /\ Len(scales) = Len(offsets))

Min3(a, b, c) ==
    IF a <= b /\ a <= c THEN a ELSE IF b <= c THEN b ELSE c

\* KEYPOINT_TD with every individual rescaled by the first pair
RescaledFirstPair(mode, outputs, scales, offsets) ==
    IF mode = "BBOX_XYWH"
    THEN Array(outputs.tail,
               [i \in 1..ArrLen(outputs) |-> RescaleBbox(outputs.rows[i], scales, offsets)])
    ELSE IF mode = "KEYPOINT"
    THEN Array(outputs.tail,
               [i \in 1..ArrLen(outputs) |->
                   [k \in 1..Len(outputs.rows[i]) |->
                       RescalePoint(outputs.rows[i][k], scales, offsets)]])
    ELSE IF ArrLen(outputs) = 0 THEN outputs
    ELSE Array(outputs.tail,
               [i \in 1..Min3(ArrLen(outputs), Len(scales), Len(offsets)) |->
                   [k \in 1..Len(outputs.rows[i]) |->
                       RescalePoint(outputs.rows[i][k], scales[1], offsets[1])]])

Rescaled(mode, outputs, scales, offsets) ==
    IF mode = "BBOX_XYWH"
    THEN Array(outputs.tail,
               [i \in 1..ArrLen(outputs) |-> RescaleBbox(outputs.rows[i], scales, offsets)])
    ELSE IF mode = "KEYPOINT"
    THEN Array(outputs.tail,
               [i \in 1..ArrLen(outputs) |->
                   [k \in 1..Len(outputs.rows[i]) |->
                       RescalePoint(outputs.rows[i][k], scales, offsets)]])
    ELSE IF ArrLen(outputs) = 0 THEN outputs
    ELSE \* zip(outputs, scales, offsets) stops with the shortest
         Array(outputs.tail,
               [i \in 1..Min3(ArrLen(outputs), Len(scales), Len(offsets)) |->
                   [k \in 1..Len(outputs.rows[i]) |->
                       RescalePoint(outputs.rows[i][k], scales[i], offsets[i])]])

RescaleAndOffset_call(self, predictions, context) ==
    IF "scales" \notin DOMAIN context /\ "offsets" \notin DOMAIN context
    THEN Ok(predictions, context)
    ELSE IF ~({"scales", "offsets"} \subseteq DOMAIN context)
    THEN Raise("KeyError")
    ELSE IF predictions.kind # "dict" THEN Raise("AttributeError")  \* list.items
    ELSE IF /\ self.mode = "KEYPOINT_TD"
            /\ \E name \in DOMAIN predictions.items \cap self.keys_to_rescale :
                  Mismatch(predictions.items[name], context["scales"],
                           context["offsets"])
    THEN Raise("ValueError")
    ELSE Ok(Dict([name \in DOMAIN predictions.items |->
                    IF name \in self.keys_to_rescale
                    THEN Rescaled(self.mode, predictions.items[name],
                                  context["scales"], context["offsets"])
                    ELSE predictions.items[name]]), context)

\* -------------------------------------------------------------- BboxToCoco
BboxToCoco_init(bounding_box_keys) ==
    [type |-> "BboxToCoco", bounding_box_keys |-> bounding_box_keys]

\* a conversion that takes the height from the wrong corner
ToCocoWrongCorner(a) ==
    Array(a.tail,
          [i \in 1..ArrLen(a) |->
              [j \in 1..Len(a.rows[i]) |->
                  IF j = 3 THEN a.rows[i][3] - a.rows[i][1]
                  ELSE IF j = 4 THEN a.rows[i][4] - a.rows[i][1]
                  ELSE a.rows[i][j]]])

\* predictions[bbox_key][:, 2] -= predictions[bbox_key][:, 0], and [:, 3] by
\* [:, 1]
ToCoco(a) ==
    Array(a.tail,
          [i \in 1..ArrLen(a) |->
              [j \in 1..Len(a.rows[i]) |->
                  IF j = 3 THEN a.rows[i][3] - a.rows[i][1]
                  ELSE IF j = 4 THEN a.rows[i][4] - a.rows[i][2]
                  ELSE a.rows[i][j]]])

RECURSIVE BboxToCocoLoop(_, _)
\* the for loop over bounding_box_keys, on the items of the dict
BboxToCocoLoop(keys, items) ==
    IF keys = <<>> THEN [exc |-> "none", items |-> items]
    ELSE IF Head(keys) \notin DOMAIN items THEN [exc |-> "KeyError", items |-> items]
    ELSE BboxToCocoLoop(Tail(keys),
             [items EXCEPT ![Head(keys)] = ToCoco(items[Head(keys)])])

BboxToCoco_call(self, predictions, context) ==
    IF self.bounding_box_keys = <<>> THEN Ok(predictions, context)
    ELSE IF predictions.kind # "dict" THEN Raise("TypeError")   \* list[str]
    ELSE LET r == BboxToCocoLoop(self.bounding_box_keys, predictions.items)
         IN  IF r.exc # "none" THEN Raise(r.exc)
             ELSE Ok(Dict(r.items), context)

\* ------------------------------------------------------ AddContextToOutput
AddContextToOutput_init(keys) == [type |-> "AddContextToOutput", keys |-> keys]

\* d[k] = v
SetItem(items, k, v) ==
    [n \in DOMAIN items \cup {k} |-> IF n = k THEN v ELSE items[n]]

RECURSIVE AddContextLoop(_, _, _)
AddContextLoop(keys, items, context) ==
    IF keys = <<>> THEN items
    ELSE AddContextLoop(Tail(keys),
             IF Head(keys) \in DOMAIN context
             THEN SetItem(items, Head(keys), context[Head(keys)])
             ELSE items,
             context)

AddContextToOutput_call(self, predictions, context) ==
    IF \A i \in 1..Len(self.keys) : self.keys[i] \notin DOMAIN context
    THEN Ok(predictions, context)
    ELSE IF predictions.kind # "dict" THEN Raise("TypeError")   \* list[str] = ...
    ELSE Ok(Dict(AddContextLoop(self.keys, predictions.items, context)), context)

\* ------------------------------------------------- objects and their identity
\* What a call does to the objects it was handed, next to the value it
\* returns:
\*   mapping       "same" when the returned predictions is the argument object
\*   shared        the keys under which the returned predictions holds the
\*                 very array object the argument held there
\*   input_after   the argument mapping's items after the call
\*   arrays_after  the values, after the call, of the array objects the
\*                 argument held
\* No stage writes to the context or to self.
Untouched(predictions) ==
    [mapping |-> "fresh", shared |-> {},
     input_after |-> predictions.items, arrays_after |-> predictions.items]

Forwarded(predictions) ==
    [mapping |-> "same", shared |-> DOMAIN predictions.items,
     input_after |-> predictions.items, arrays_after |-> predictions.items]

\* outputs is a new dict and np.concatenate allocates its result
ConcatenateOutputs_effect(self, predictions, context) == Untouched(predictions)

\* the order in which the pipelines insert their output keys
KeyOrder == <<"bodyparts", "unique_bodyparts", "bboxes", "bbox_scores">>

\* for name in predictions
Names(items) ==
    LET Present(k) == k \in DOMAIN items
    IN  SelectSeq(KeyOrder, Present)

RECURSIVE PadOutputsLoop(_, _, _)
\* the for loop of PadOutputs.__call__ on the items of the argument dict:
\* predictions[name] is rebound to the padded array
PadOutputsLoop(self, names, items) ==
    IF names = <<>> THEN [exc |-> "none", items |-> items]
    ELSE IF Head(names) \notin DOMAIN self.max_individuals
    THEN [exc |-> "KeyError", items |-> items]
    ELSE PadOutputsLoop(self, Tail(names),
             [items EXCEPT ![Head(names)] = PadOne(self, items[Head(names)], Head(names))])

PadOutputs_effect(self, predictions, context) ==
    IF predictions.kind # "dict"
    THEN IF PyLen(predictions) = 0 THEN Forwarded(predictions)
         ELSE Untouched(predictions)
    ELSE LET r == PadOutputsLoop(self, Names(predictions.items), predictions.items)
         IN  [mapping |-> "same",
              shared |-> {k \in DOMAIN predictions.items :
                             r.items[k] = predictions.items[k]},
              input_after |-> r.items,
              arrays_after |-> predictions.items]

\* a stage that hands unconfigured arrays on without copying them
RescaleAndOffset_effect_shared(self, predictions, context) ==
    IF "scales" \notin DOMAIN context /\ "offsets" \notin DOMAIN context
    THEN Forwarded(predictions)
    ELSE IF RescaleAndOffset_call(self, predictions, context).exc # "none"
    THEN Untouched(predictions)
    ELSE [mapping |-> "fresh",
          shared |-> DOMAIN predictions.items \ self.keys_to_rescale,
          input_after |-> predictions.items,
          arrays_after |-> predictions.items]

\* a stage that rescales the configured arrays without copying them first
RescaleAndOffset_effect_inplace(self, predictions, context) ==
    IF "scales" \notin DOMAIN context /\ "offsets" \notin DOMAIN context
    THEN Forwarded(predictions)
    ELSE IF RescaleAndOffset_call(self, predictions, context).exc # "none"
    THEN Untouched(predictions)
    ELSE [mapping |-> "fresh",
          shared |-> DOMAIN predictions.items \cap self.keys_to_rescale,
          input_after |-> RescaleAndOffset_call(self, predictions, context).predictions.items,
          arrays_after |-> RescaleAndOffset_call(self, predictions, context).predictions.items]

\* return predictions, context (line 265); outputs.copy() (lines 272, 278,
\* 293, 301); rescaled = outputs (line 289)
RescaleAndOffset_effect(self, predictions, context) ==
    IF "scales" \notin DOMAIN context /\ "offsets" \notin DOMAIN context
    THEN Forwarded(predictions)
    ELSE IF RescaleAndOffset_call(self, predictions, context).exc # "none"
    THEN Untouched(predictions)
    ELSE [mapping |-> "fresh",
          shared |-> {name \in DOMAIN predictions.items \cap self.keys_to_rescale :
                         /\ self.mode = "KEYPOINT_TD"
                         /\ ArrLen(predictions.items[name]) = 0},
          input_after |-> predictions.items,
          arrays_after |-> predictions.items]

\* predictions[bbox_key][:, 2] -= ...: the argument's arrays are written to
BboxToCoco_effect(self, predictions, context) ==
    IF self.bounding_box_keys = <<>> THEN Forwarded(predictions)
    ELSE IF predictions.kind # "dict" THEN Untouched(predictions)
    ELSE LET r == BboxToCocoLoop(self.bounding_box_keys, predictions.items)
         IN  [mapping |-> "same", shared |-> DOMAIN predictions.items,
              input_after |-> r.items, arrays_after |-> r.items]

\* predictions[k] = context[k].copy(): the argument dict gets the keys
AddContextToOutput_effect(self, predictions, context) ==
    IF \A i \in 1..Len(self.keys) : self.keys[i] \notin DOMAIN context
    THEN Forwarded(predictions)
    ELSE IF predictions.kind # "dict" THEN Untouched(predictions)
    ELSE [mapping |-> "same",
          shared |-> DOMAIN predictions.items
                        \ {self.keys[i] : i \in {j \in 1..Len(self.keys) :
                                                    self.keys[j] \in DOMAIN context}},
          input_after |-> AddContextLoop(self.keys, predictions.items, context),
          arrays_after |-> predictions.items]

Effect(postprocessor, predictions, context) ==
    IF postprocessor.type = "ConcatenateOutputs"
    THEN ConcatenateOutputs_effect(postprocessor, predictions, context)
    ELSE IF postprocessor.type = "PadOutputs"
    THEN PadOutputs_effect(postprocessor, predictions, context)
    ELSE IF postprocessor.type = "RescaleAndOffset"
    THEN RescaleAndOffset_effect(postprocessor, predictions, context)
    ELSE IF postprocessor.type = "BboxToCoco"
    THEN BboxToCoco_effect(postprocessor, predictions, context)
    ELSE AddContextToOutput_effect(postprocessor, predictions, context)

\* ---------------------------------------------------- ComposePostprocessor
ComposePostprocessor_init(components) ==
    [type |-> "ComposePostprocessor", components |-> components]

\* postprocessor(predictions, context) for a stage object
Apply(postprocessor, predictions, context) ==
    IF postprocessor.type = "ConcatenateOutputs"
    THEN ConcatenateOutputs_call(postprocessor, predictions, context)
    ELSE IF postprocessor.type = "PadOutputs"
    THEN PadOutputs_call(postprocessor, predictions, context)
    ELSE IF postprocessor.type = "RescaleAndOffset"
    THEN RescaleAndOffset_call(postprocessor, predictions, context)
    ELSE IF postprocessor.type = "BboxToCoco"
    THEN BboxToCoco_call(postprocessor, predictions, context)
    ELSE AddContextToOutput_call(postprocessor, predictions, context)

\* ---------------------------------------------------------------- builders
\* ComposePostprocessor(components=[e1, e2, ...]): the element expressions are
\* evaluated left to right and the first exception ends the builder
FirstExc(made) ==
    IF \A i \in 1..Len(made) : made[i].exc = "none" THEN "none"
    ELSE made[CHOOSE i \in 1..Len(made) :
                 /\ made[i].exc # "none"
                 /\ \A j \in 1..(i - 1) : made[j].exc = "none"].exc

Composed(made) ==
    [exc |-> FirstExc(made),
     obj |-> ComposePostprocessor_init([i \in 1..Len(made) |-> made[i].obj])]

Made(obj) == [exc |-> "none", obj |-> obj]

build_bottom_up_postprocessor(max_individuals, num_bodyparts, num_unique_bodyparts) ==
    LET keys_to_concatenate ==
            IF num_unique_bodyparts > 0
            THEN [bodyparts |-> <<"bodypart", "poses">>,
                  unique_bodyparts |-> <<"unique_bodypart", "poses">>]
            ELSE [bodyparts |-> <<"bodypart", "poses">>]
        empty_shapes == [bodyparts |-> <<num_bodyparts, 3>>]
        keys_to_rescale ==
            IF num_unique_bodyparts > 0 THEN {"bodyparts", "unique_bodyparts"}
            ELSE {"bodyparts"}
    IN  Composed(<<
            ConcatenateOutputs_init(keys_to_concatenate, Some(empty_shapes), TRUE),
            RescaleAndOffset_init(keys_to_rescale, "data", "DataType", "KEYPOINT"),
            Made(PadOutputs_init([bodyparts |-> max_individuals,
                                  unique_bodyparts |-> 0], -1)) >>)

build_top_down_postprocessor(max_individuals, num_bodyparts, num_unique_bodyparts) ==
    LET keys_to_concatenate ==
            IF num_unique_bodyparts > 0
            THEN [bodyparts |-> <<"bodypart", "poses">>,
                  unique_bodyparts |-> <<"unique_bodypart", "poses">>]
            ELSE [bodyparts |-> <<"bodypart", "poses">>]
        empty_shapes ==
            IF num_unique_bodyparts > 0
            THEN [bodyparts |-> <<num_bodyparts, 3>>,
                  unique_bodyparts |-> <<num_unique_bodyparts, 3>>]
            ELSE [bodyparts |-> <<num_bodyparts, 3>>]
        keys_to_rescale ==
            IF num_unique_bodyparts > 0 THEN {"bodyparts", "unique_bodyparts"}
            ELSE {"bodyparts"}
    IN  Composed(<<
            ConcatenateOutputs_init(keys_to_concatenate, Some(empty_shapes), TRUE),
            RescaleAndOffset_init(keys_to_rescale, "data", "DataType", "KEYPOINT_TD"),
            Made(AddContextToOutput_init(<<"bboxes", "bbox_scores">>)),
            Made(PadOutputs_init([bodyparts |-> max_individuals,
                                  bboxes |-> max_individuals,
                                  bbox_scores |-> max_individuals,
                                  unique_bodyparts |-> 0], -1)) >>)

build_detector_postprocessor ==
    Composed(<<
        ConcatenateOutputs_init([bboxes |-> <<"detection", "bboxes">>,
                                 bbox_scores |-> <<"detection", "scores">>],
                                None, FALSE),
        Made(BboxToCoco_init(<<"bboxes">>)),
        RescaleAndOffset_init({"bboxes"}, "data", "DataType", "BBOX_XYWH") >>)

\* ------------------------------------------------------------------ inputs
\* What the inference runner hands over for one frame.  Candidate i of a list
\* carries values that name i, its row and its keypoint, so that rows of
\* different candidates differ.
PosePoint(c, r, k) == <<100 * c + 10 * r + k, 100 * c + 10 * r + k + 5, c>>

PoseArray(c, m) ==
    Array(<<NumBodyparts, 3>>,
          [r \in 1..m |-> [k \in 1..NumBodyparts |-> PosePoint(c, r, k)]])

UniqueArray(c) == Array(<<1, 3>>, <<<<PosePoint(c, 9, 1)>>>>)

BboxRow(c, r) == <<10 * c + r, 20 * c + r, 10 * c + r + 40, 20 * c + r + 60>>

BboxArray(c, m) == Array(<<4>>, [r \in 1..m |-> BboxRow(c, r)])

ScoreArray(c, m) == Array(<<>>, [r \in 1..m |-> 10 * c + r])

PoseCandidate(c, m) ==
    [bodypart |-> [poses |-> PoseArray(c, m)],
     unique_bodypart |-> [poses |-> UniqueArray(c)]]

DetCandidate(c, m) ==
    [detection |-> [bboxes |-> BboxArray(c, m), scores |-> ScoreArray(c, m)]]

RowCounts == UNION {[1..n -> 1..MaxRows] : n \in 0..MaxCands}

DictForms == {"bu", "bu_unique", "det", "td"}

InputDescs ==
    [form : {"pose", "det_list"}, rows : RowCounts]
        \cup [form : DictForms, rows : {<<n>> : n \in 0..MaxRows}]

DictInput(form, n) ==
    IF form = "bu" THEN [bodyparts |-> PoseArray(0, n)]
    ELSE IF form = "bu_unique"
    THEN [bodyparts |-> PoseArray(0, n), unique_bodyparts |-> UniqueArray(0)]
    ELSE IF form = "det"
    THEN [bboxes |-> BboxArray(0, n), bbox_scores |-> ScoreArray(0, n)]
    ELSE [bodyparts |-> PoseArray(0, n), bboxes |-> BboxArray(0, n),
          bbox_scores |-> ScoreArray(0, n)]

Input(d) ==
    IF d.form = "pose"
    THEN List([i \in 1..Len(d.rows) |-> PoseCandidate(i, d.rows[i])])
    ELSE IF d.form = "det_list"
    THEN List([i \in 1..Len(d.rows) |-> DetCandidate(i, d.rows[i])])
    ELSE Dict(DictInput(d.form, d.rows[1]))

\* What the preprocessor leaves in the context: nothing, one global
\* scale/offset pair (bottom-up, detector), or one pair per crop together
\* with the crops' boxes (top-down); "td_uneven" carries one offset more than
\* scales.
ContextDescs ==
    [form : {"none", "global", "identity"}, n : {0}]
        \cup [form : {"td"}, n : 0..MaxRows]
        \cup [form : {"td_uneven"}, n : {1}]

Context(d) ==
    IF d.form = "none" THEN EmptyMap
    ELSE IF d.form = "global" THEN [scales |-> <<2, 3>>, offsets |-> <<10, 20>>]
    ELSE IF d.form = "identity" THEN [scales |-> <<1, 1>>, offsets |-> <<0, 0>>]
    ELSE [scales |-> [i \in 1..d.n |-> <<i + 1, i + 2>>],
          offsets |-> [i \in 1..(IF d.form = "td_uneven" THEN d.n + 1 ELSE d.n) |->
                          <<10 * i, 20 * i>>],
          bboxes |-> BboxArray(7, d.n),
          bbox_scores |-> ScoreArray(7, d.n)]

\* the modes of the RescaleAndOffset stages of an object
ModesOf(obj) ==
    IF obj.type = "ComposePostprocessor"
    THEN {obj.components[i].mode :
             i \in {j \in 1..Len(obj.components) :
                       obj.components[j].type = "RescaleAndOffset"}}
    ELSE IF obj.type = "RescaleAndOffset" THEN {obj.mode}
    ELSE {}

\* the preprocessor's context has the cardinality the pipeline's mode reads
Fits(obj, d) ==
    /\ d.form \in {"td", "td_uneven"} => ModesOf(obj) \subseteq {"KEYPOINT_TD"}
    /\ d.form \in {"global", "identity"} => ModesOf(obj) \subseteq {"BBOX_XYWH", "KEYPOINT"}

\* ------------------------------------------------------------------- state
VARIABLES
    pc,           \* "start", "constructed", "ctor_raised", "running", "done", "raised"
    ctor,         \* the constructor or builder that was called, with its arguments
    obj,          \* the object it returned
    exc,          \* the exception of the last construction or call, or "none"
    args,         \* the (predictions, context) the object was called on
    idx,          \* ComposePostprocessor.__call__: position in self.components
    predictions,  \* the loop's current predictions, then the returned ones
    context,      \* the loop's current context, then the returned one
    applied,      \* the components called so far, in call order
    caller,       \* the objects the caller passed in, as the caller sees them:
                  \* mapping/arrays = items of its predictions object / values
                  \* of the arrays that object held at the call; same/shared =
                  \* the predictions now in hand is that object / holds those
                  \* array objects under these keys
    reader,       \* VideoReader: the number of the frame read_frame gives next
    _index,       \* VideoIterator._index
    _context,     \* VideoIterator._context
    result,       \* what the last call on the VideoIterator returned or raised
    returned,     \* what __next__ returned since the start of the current pass
    skipped,      \* frames read in the current pass that __next__ did not return
    previous      \* the last pass that was exhausted: how many frames __next__
                  \* returned in it, and how many of them with a context

video == <<reader, _index, _context, result, returned, skipped, previous>>

vars == <<pc, ctor, obj, exc, args, idx, predictions, context, applied, caller,
          reader, _index, _context, result, returned, skipped, previous>>

\* VideoIterator.__init__ on a video of NFrames frames
VideoIterator_init(context_arg) ==
    /\ reader = 0
    /\ _context = context_arg
    /\ _index = 0
    /\ result = [kind |-> "none"]
    /\ returned = <<>>
    /\ skipped = 0
    /\ previous = [frames |-> 0, contexts |-> 0]

NoObj == [type |-> "none"]

NoArgs == [predictions |-> NoValue, context |-> EmptyMap]

Init ==
    /\ pc = "start"
    /\ ctor = [name |-> "none", args |-> <<>>]
    /\ obj = NoObj
    /\ exc = "none"
    /\ args = NoArgs
    /\ idx = 0
    /\ predictions = NoValue
    /\ context = EmptyMap
    /\ applied = <<>>
    /\ caller = [mapping |-> EmptyMap, arrays |-> EmptyMap, same |-> FALSE, shared |-> {}]
    /\ VideoIterator_init(None)

\* a constructor or builder call returning `made`
Constructed(name, a, made) ==
    /\ pc = "start"
    /\ ctor' = [name |-> name, args |-> a]
    /\ exc' = made.exc
    /\ obj' = IF made.exc = "none" THEN made.obj ELSE NoObj
    /\ pc' = IF made.exc = "none" THEN "constructed" ELSE "ctor_raised"
    /\ UNCHANGED <<args, idx, predictions, context, applied, caller>>
    /\ UNCHANGED video

KeysToConcatenate(id) ==
    IF id = 0 THEN EmptyMap
    ELSE IF id = 1 THEN [bodyparts |-> <<"bodypart", "poses">>]
    ELSE IF id = 2 THEN [bodyparts |-> <<"bodypart", "poses">>,
                         unique_bodyparts |-> <<"unique_bodypart", "poses">>]
    ELSE [bboxes |-> <<"detection", "bboxes">>,
          bbox_scores |-> <<"detection", "scores">>]

EmptyShapes(id) ==
    IF id = 0 THEN None
    ELSE IF id = 1 THEN Some([bodyparts |-> <<NumBodyparts, 3>>])
    ELSE IF id = 2 THEN Some([bodyparts |-> <<NumBodyparts, 3>>,
                              unique_bodyparts |-> <<1, 3>>])
    ELSE Some([bboxes |-> <<4>>, bbox_scores |-> <<>>])

ConstructConcatenateOutputs ==
    \E k \in 0..3, e \in 0..3, create_empty_outputs \in BOOLEAN :
        Constructed("ConcatenateOutputs", <<k, e, create_empty_outputs>>,
            ConcatenateOutputs_init(KeysToConcatenate(k), EmptyShapes(e),
                                    create_empty_outputs))

MaxIndividuals(form, t) ==
    IF form = "bodyparts" THEN [bodyparts |-> t]
    ELSE IF form = "bu" THEN [bodyparts |-> t, unique_bodyparts |-> 0]
    ELSE [bodyparts |-> t, bboxes |-> t, bbox_scores |-> t, unique_bodyparts |-> 0]

ConstructPadOutputs ==
    \E form \in {"bodyparts", "bu", "td"}, t \in 0..MaxInd, pad_value \in {-1, 0} :
        Constructed("PadOutputs", <<form, t, pad_value>>,
            Made(PadOutputs_init(MaxIndividuals(form, t), pad_value)))

RescaleConfigs ==
    {<<{"bodyparts"}, "KEYPOINT">>,
     <<{"bodyparts", "unique_bodyparts"}, "KEYPOINT">>,
     <<{"bodyparts"}, "KEYPOINT_TD">>,
     <<{"bboxes"}, "BBOX_XYWH">>}

ConstructRescaleAndOffset ==
    \E cfg \in RescaleConfigs :
        Constructed("RescaleAndOffset", cfg,
            RescaleAndOffset_init(cfg[1], "mode", "Mode", cfg[2]))

ConstructBboxToCoco ==
    \E bounding_box_keys \in {<<>>, <<"bboxes">>} :
        Constructed("BboxToCoco", bounding_box_keys,
            Made(BboxToCoco_init(bounding_box_keys)))

ConstructAddContextToOutput ==
    \E keys \in {<<"bboxes">>, <<"bboxes", "bbox_scores">>} :
        Constructed("AddContextToOutput", keys, Made(AddContextToOutput_init(keys)))

\* the stages an enumerated ComposePostprocessor is made of
Component(id) ==
    IF id = 1
    THEN ConcatenateOutputs_init(KeysToConcatenate(1), EmptyShapes(1), TRUE).obj
    ELSE IF id = 2
    THEN RescaleAndOffset_init({"bodyparts"}, "mode", "Mode", "KEYPOINT").obj
    ELSE IF id = 3 THEN PadOutputs_init(MaxIndividuals("td", MaxInd), -1)
    ELSE IF id = 4 THEN AddContextToOutput_init(<<"bboxes", "bbox_scores">>)
    ELSE BboxToCoco_init(<<"bboxes">>)

ComponentIds == UNION {[1..n -> 1..5] : n \in 0..MaxStages}

ConstructCompose ==
    \E ids \in ComponentIds :
        Constructed("ComposePostprocessor", ids,
            Made(ComposePostprocessor_init([i \in 1..Len(ids) |-> Component(ids[i])])))

BuildBottomUp ==
    \E max_individuals \in 1..(MaxInd + 1), num_bodyparts \in {NumBodyparts, 5},
       num_unique_bodyparts \in {0, 1} :
        Constructed("build_bottom_up_postprocessor",
            <<max_individuals, num_bodyparts, num_unique_bodyparts>>,
            build_bottom_up_postprocessor(max_individuals, num_bodyparts,
                                          num_unique_bodyparts))

BuildTopDown ==
    \E max_individuals \in 1..(MaxInd + 1), num_bodyparts \in {NumBodyparts, 5},
       num_unique_bodyparts \in {0, 1} :
        Constructed("build_top_down_postprocessor",
            <<max_individuals, num_bodyparts, num_unique_bodyparts>>,
            build_top_down_postprocessor(max_individuals, num_bodyparts,
                                         num_unique_bodyparts))

BuildDetector ==
    Constructed("build_detector_postprocessor", <<>>, build_detector_postprocessor)

\* stage(predictions, context) on a stage object
CallStage ==
    /\ pc = "constructed"
    /\ obj.type # "ComposePostprocessor"
    /\ \E p \in InputDescs, c \in ContextDescs :
        /\ Fits(obj, c)
        /\ LET r == Apply(obj, Input(p), Context(c))
               e == Effect(obj, Input(p), Context(c))
           IN  /\ args' = [predictions |-> Input(p), context |-> Context(c)]
               /\ exc' = r.exc
               /\ predictions' = r.predictions
               /\ context' = r.context
               /\ pc' = IF r.exc = "none" THEN "done" ELSE "raised"
               /\ caller' = [mapping |-> e.input_after,
                             arrays |-> e.arrays_after,
                             same |-> r.exc = "none" /\ e.mapping = "same",
                             shared |-> IF r.exc = "none" THEN e.shared ELSE {}]
    /\ UNCHANGED <<ctor, obj, idx, applied>>
    /\ UNCHANGED video

\* ComposePostprocessor.__call__: entry
CallCompose ==
    /\ pc = "constructed"
    /\ obj.type = "ComposePostprocessor"
    /\ \E p \in InputDescs, c \in ContextDescs :
        /\ Fits(obj, c)
        /\ args' = [predictions |-> Input(p), context |-> Context(c)]
        /\ predictions' = Input(p)
        /\ context' = Context(c)
        /\ caller' = [mapping |-> Input(p).items, arrays |-> Input(p).items,
                      same |-> TRUE, shared |-> DOMAIN Input(p).items]
    /\ idx' = 1
    /\ pc' = "running"
    /\ UNCHANGED <<ctor, obj, exc, applied>>
    /\ UNCHANGED video

\* what the caller's objects look like after a component with result r and
\* effect e ran on the predictions in hand
Seen(c, r, e) ==
    [mapping |-> IF c.same THEN e.input_after ELSE c.mapping,
     arrays |-> [k \in DOMAIN c.arrays |->
                    IF k \in c.shared THEN e.arrays_after[k] ELSE c.arrays[k]],
     same |-> c.same /\ r.exc = "none" /\ e.mapping = "same",
     shared |-> IF r.exc = "none" THEN c.shared \cap e.shared ELSE {}]

\* a loop that walks self.components last to first
ComposeStepReversed ==
    /\ pc = "running"
    /\ idx <= Len(obj.components)
    /\ LET r == Apply(obj.components[Len(obj.components) + 1 - idx], predictions, context)
       IN  /\ exc' = r.exc
           /\ predictions' = r.predictions
           /\ context' = r.context
           /\ pc' = IF r.exc = "none" THEN "running" ELSE "raised"
    /\ applied' = Append(applied, idx)
    /\ idx' = idx + 1
    /\ UNCHANGED <<ctor, obj, args, caller>>
    /\ UNCHANGED video

\* one iteration of `for postprocessor in self.components`
ComposeStep ==
    /\ pc = "running"
    /\ idx <= Len(obj.components)
    /\ LET r == Apply(obj.components[idx], predictions, context)
       IN  /\ exc' = r.exc
           /\ predictions' = r.predictions
           /\ context' = r.context
           /\ pc' = IF r.exc = "none" THEN "running" ELSE "raised"
           /\ caller' = Seen(caller, r, Effect(obj.components[idx], predictions, context))
    /\ applied' = Append(applied, idx)
    /\ idx' = idx + 1
    /\ UNCHANGED <<ctor, obj, args>>
    /\ UNCHANGED video

\* return predictions, context
ComposeReturn ==
    /\ pc = "running"
    /\ idx > Len(obj.components)
    /\ pc' = "done"
    /\ UNCHANGED <<ctor, obj, exc, args, idx, predictions, context, applied, caller>>
    /\ UNCHANGED video

Next ==
    \/ ConstructConcatenateOutputs
    \/ ConstructPadOutputs
    \/ ConstructRescaleAndOffset
    \/ ConstructBboxToCoco
    \/ ConstructAddContextToOutput
    \/ ConstructCompose
    \/ BuildBottomUp
    \/ BuildTopDown
    \/ BuildDetector
    \/ CallStage
    \/ CallCompose
    \/ ComposeStep
    \/ ComposeReturn

Spec == Init /\ [][Next]_vars

\* ------------------------------------------------------------ VideoIterator
\* A context list as a caller holds it: entry k of list `list`.  held_by
\* tells the objects apart: a deep copy has the same entries in new objects.
ContextList(list, n) ==
    [i \in 1..n |-> [list |-> list, entry |-> i - 1, held_by |-> "caller"]]

\* copy.deepcopy of one context entry
deepcopy(entry, holder) == [entry EXCEPT !.held_by = holder]

\* copy.deepcopy of a context list
deepcopy_list(context_arg, holder) ==
    [i \in 1..Len(context_arg) |-> deepcopy(context_arg[i], holder)]

\* The contexts a caller passes: none, a list with one entry per frame, a
\* list that is one entry short.
ContextArgs ==
    {None, Some(ContextList(1, NFrames)), Some(ContextList(2, NFrames - 1))}

\* VideoReader.read_frame: the next frame, or None behind the last one
read_frame == IF reader < NFrames THEN Some(reader) ELSE None

\* the reader's position after read_frame
Advanced == IF reader < NFrames THEN reader + 1 ELSE reader

\* VideoReader.reset
Reset == 0

pipeline == <<pc, ctor, obj, exc, args, idx, predictions, context, applied, caller>>

\* VideoIterator(video_path, context): __init__ keeps the list it is given
VideoInit ==
    /\ pc = "start"
    /\ ctor = [name |-> "none", args |-> <<>>]
    /\ obj = NoObj
    /\ exc = "none"
    /\ args = NoArgs
    /\ idx = 0
    /\ predictions = NoValue
    /\ context = EmptyMap
    /\ applied = <<>>
    /\ caller = [mapping |-> EmptyMap, arrays |-> EmptyMap, same |-> FALSE, shared |-> {}]
    /\ \E context_arg \in ContextArgs : VideoIterator_init(context_arg)

get_context ==
    /\ result' = IF _context.none THEN [kind |-> "None"]
                 ELSE [kind |-> "context",
                       context |-> deepcopy_list(_context.val, "result")]
    /\ UNCHANGED <<reader, _index, _context, returned, skipped, previous>>
    /\ UNCHANGED pipeline

set_context ==
    /\ \E context_arg \in ContextArgs :
          _context' = IF context_arg.none THEN None
                      ELSE Some(deepcopy_list(context_arg.val, "iterator"))
    /\ result' = [kind |-> "None"]
    /\ UNCHANGED <<reader, _index, returned, skipped, previous>>
    /\ UNCHANGED pipeline

\* an iterator that does not set _index back when the video is exhausted
VideoIterator_next_stale ==
    /\ LET frame == read_frame
       IN  IF frame.none
           THEN /\ _index' = _index
                /\ reader' = Reset
                /\ result' = [kind |-> "StopIteration"]
                /\ previous' = [frames |-> Len(returned),
                                 contexts |-> Cardinality({k \in 1..Len(returned) :
                                                 ~returned[k].context.none})]
                /\ returned' = <<>>
                /\ skipped' = 0
           ELSE IF _context.none
           THEN /\ _index' = _index + 1
                /\ reader' = Advanced
                /\ result' = [kind |-> "frame", frame |-> frame.val]
                /\ returned' = Append(returned, [frame |-> frame.val, context |-> None])
                /\ UNCHANGED <<skipped, previous>>
           ELSE IF _index >= Len(_context.val)
           THEN /\ reader' = Advanced
                /\ result' = [kind |-> "IndexError"]
                /\ skipped' = skipped + 1
                /\ UNCHANGED <<_index, returned, previous>>
           ELSE /\ _index' = _index + 1
                /\ reader' = Advanced
                /\ result' = [kind |-> "pair", frame |-> frame.val,
                              context |-> deepcopy(_context.val[_index + 1], "result")]
                /\ returned' = Append(returned,
                       [frame |-> frame.val,
                        context |-> Some(deepcopy(_context.val[_index + 1], "result"))])
                /\ UNCHANGED <<skipped, previous>>
    /\ UNCHANGED _context
    /\ UNCHANGED pipeline

\* VideoIterator.__next__
VideoIterator_next ==
    /\ LET frame == read_frame
       IN  IF frame.none
           THEN /\ _index' = 0
                /\ reader' = Reset
                /\ result' = [kind |-> "StopIteration"]
                /\ previous' = [frames |-> Len(returned),
                                 contexts |-> Cardinality({k \in 1..Len(returned) :
                                                 ~returned[k].context.none})]
                /\ returned' = <<>>
                /\ skipped' = 0
           ELSE IF _context.none
           THEN /\ _index' = _index + 1
                /\ reader' = Advanced
                /\ result' = [kind |-> "frame", frame |-> frame.val]
                /\ returned' = Append(returned, [frame |-> frame.val, context |-> None])
                /\ UNCHANGED <<skipped, previous>>
           ELSE IF _index >= Len(_context.val)
           THEN /\ reader' = Advanced
                /\ result' = [kind |-> "IndexError"]
                /\ skipped' = skipped + 1
                /\ UNCHANGED <<_index, returned, previous>>
           ELSE /\ _index' = _index + 1
                /\ reader' = Advanced
                /\ result' = [kind |-> "pair", frame |-> frame.val,
                              context |-> deepcopy(_context.val[_index + 1], "result")]
                /\ returned' = Append(returned,
                       [frame |-> frame.val,
                        context |-> Some(deepcopy(_context.val[_index + 1], "result"))])
                /\ UNCHANGED <<skipped, previous>>
    /\ UNCHANGED _context
    /\ UNCHANGED pipeline

VideoNext ==
    \/ VideoIterator_next
    \/ get_context
    \/ set_context

VideoSpec == VideoInit /\ [][VideoNext]_vars

\* ------------------------------------------------------------------ claims
IsCompose == obj.type = "ComposePostprocessor"

Finished == pc \in {"done", "raised"}

RECURSIVE FoldStages(_, _, _)
\* s_n(... s_2(s_1(predictions, context)) ...); an exception of a stage is the
\* result of the whole
FoldStages(stages, p, c) ==
    IF stages = <<>> THEN Ok(p, c)
    ELSE LET prev == FoldStages(SubSeq(stages, 1, Len(stages) - 1), p, c)
         IN  IF prev.exc # "none" THEN prev
             ELSE Apply(stages[Len(stages)], prev.predictions, prev.context)

\* C1: ComposePostprocessor.__call__ is a left fold over its components: it
\* calls each component once, in construction order, on the output of the one
\* before, its result (or exception) is that of s_n(...s_1(predictions,
\* context)...), and with no components it returns its arguments.
C1_ComposeIsLeftFold ==
    IsCompose =>
        /\ applied = [i \in 1..Len(applied) |-> i]
        /\ pc = "running" => Len(applied) = idx - 1
        /\ pc = "done" => Len(applied) = Len(obj.components)
        /\ Finished =>
              LET f == FoldStages(obj.components, args.predictions, args.context)
              IN  /\ exc = f.exc
                  /\ pc = "done" =>
                        /\ predictions.kind = f.predictions.kind
                        /\ predictions = f.predictions
                        /\ context = f.context
        /\ (pc = "done" /\ obj.components = <<>>) =>
              /\ predictions = args.predictions
              /\ context = args.context

\* C1 witness: a two-stage pipeline (concatenate, then pad) has returned, and
\* the second stage worked on the first one's output.
C1_Witness ==
    /\ IsCompose
    /\ pc = "done"
    /\ Len(obj.components) = 2
    /\ obj.components[1].type = "ConcatenateOutputs"
    /\ obj.components[2].type = "PadOutputs"
    /\ Len(args.predictions.items) = 1
    /\ ArrLen(predictions.items["bodyparts"]) = MaxInd

Builders ==
    {"build_bottom_up_postprocessor", "build_top_down_postprocessor",
     "build_detector_postprocessor"}

StageTypes(o) == [i \in 1..Len(o.components) |-> o.components[i].type]

\* candidate i's only row of keypoints, rescaled with the pair (scale, offset)
ExpectedPoseRow(cand, scale, offset) ==
    [k \in 1..Len(cand.rows[1]) |->
        <<cand.rows[1][k][1] * scale[1] + offset[1],
          cand.rows[1][k][2] * scale[2] + offset[2],
          cand.rows[1][k][3]>>]

\* C2: build_bottom_up_postprocessor(max_individuals, num_bodyparts, 0) returns
\* a pipeline which, on n <= max_individuals candidates and a context with one
\* global scale/offset, returns "bodyparts" with max_individuals rows: the n
\* candidates rescaled, in candidate order, then rows of -1 (for (4, 5, 0) and
\* 2 candidates: shape (4, 5, 3)).
C2_EndToEndBottomUp ==
    (ctor.name = "build_bottom_up_postprocessor" /\ ctor.args[3] = 0) =>
        /\ pc # "ctor_raised"
        /\ (pc = "done" /\ Len(args.predictions.items) <= ctor.args[1]
                /\ "scales" \in DOMAIN args.context) =>
              LET out == predictions.items["bodyparts"]
                  n == Len(args.predictions.items)
              IN  /\ Shape(out) = <<ctor.args[1], ctor.args[2], 3>>
                  /\ \A i \in 1..n :
                        out.rows[i] =
                            ExpectedPoseRow(args.predictions.items[i]["bodypart"]["poses"],
                                            args.context["scales"], args.context["offsets"])
                  /\ \A i \in (n + 1)..ctor.args[1] : out.rows[i] = Fill(out.tail, -1)

\* C3: build_top_down_postprocessor returns a pipeline which, on N <=
\* max_individuals candidates and a context with N scales, N offsets, "bboxes"
\* and "bbox_scores", returns "bboxes" = the context's boxes followed by rows
\* of -1 up to max_individuals, and "bodyparts" with max_individuals rows, row
\* i being candidate i rescaled with its own scale/offset.
C3_EndToEndTopDown ==
    ctor.name = "build_top_down_postprocessor" =>
        /\ pc # "ctor_raised"
        /\ (pc = "done" /\ Len(args.predictions.items) <= ctor.args[1]) =>
              LET n == Len(args.predictions.items)
                  boxes == predictions.items["bboxes"]
                  out == predictions.items["bodyparts"]
              IN  /\ ArrLen(boxes) = ctor.args[1]
                  /\ ArrLen(out) = ctor.args[1]
                  /\ \A i \in 1..n :
                        /\ boxes.rows[i] = args.context["bboxes"].rows[i]
                        /\ out.rows[i] =
                            ExpectedPoseRow(args.predictions.items[i]["bodypart"]["poses"],
                                            args.context["scales"][i],
                                            args.context["offsets"][i])
                  /\ \A i \in (n + 1)..ctor.args[1] : boxes.rows[i] = Fill(boxes.tail, -1)

\* C4: each builder returns, without raising, a pipeline with the fixed stage
\* order: bottom-up = concatenate, rescale KEYPOINT, pad; top-down =
\* concatenate, rescale KEYPOINT_TD, add context, pad; detector = concatenate,
\* BboxToCoco, rescale BBOX_XYWH.
C4_BuildersFixedStageOrder ==
    ctor.name \in Builders =>
        /\ pc # "ctor_raised"
        /\ ctor.name = "build_bottom_up_postprocessor" =>
              /\ StageTypes(obj) = <<"ConcatenateOutputs", "RescaleAndOffset", "PadOutputs">>
              /\ obj.components[2].mode = "KEYPOINT"
        /\ ctor.name = "build_top_down_postprocessor" =>
              /\ StageTypes(obj) = <<"ConcatenateOutputs", "RescaleAndOffset",
                                     "AddContextToOutput", "PadOutputs">>
              /\ obj.components[2].mode = "KEYPOINT_TD"
              /\ obj.components[3].keys = <<"bboxes", "bbox_scores">>
        /\ ctor.name = "build_detector_postprocessor" =>
              /\ StageTypes(obj) = <<"ConcatenateOutputs", "BboxToCoco", "RescaleAndOffset">>
              /\ obj.components[3].mode = "BBOX_XYWH"

\* C5: for every num_unique_bodyparts >= 0 the bottom-up and top-down builders
\* hand ConcatenateOutputs an empty-shape entry for every key to concatenate,
\* so its constructor-time validation passes, and on an empty candidate list
\* the pipeline's first stage emits shapes (0, num_bodyparts, 3) and
\* (0, num_unique_bodyparts, 3).
C5_BuildersDeclareEveryEmptyShape ==
    ctor.name \in {"build_bottom_up_postprocessor", "build_top_down_postprocessor"} =>
        /\ exc # "ValueError"
        /\ pc # "ctor_raised" =>
              /\ DOMAIN obj.components[1].keys_to_concatenate
                     \subseteq DOMAIN obj.components[1].empty_shapes.val
              /\ ctor.args[3] > 0 =>
                    obj.components[1].empty_shapes.val["unique_bodyparts"]
                        = <<ctor.args[3], 3>>

AllShapesDeclared(o) ==
    \A k \in DOMAIN o.keys_to_concatenate :
        ~o.empty_shapes.none /\ k \in DOMAIN o.empty_shapes.val

\* C6: a ConcatenateOutputs whose configured keys all have a declared empty
\* shape, called on an empty candidate list, returns exactly the configured
\* keys, each an array of shape (0, *declared_shape), and the context it was
\* given.
C6_EmptyInput ==
    (obj.type = "ConcatenateOutputs" /\ Finished /\ PyLen(args.predictions) = 0
        /\ AllShapesDeclared(obj)) =>
        /\ pc = "done"
        /\ predictions.kind = "dict"
        /\ DOMAIN predictions.items = DOMAIN obj.keys_to_concatenate
        /\ \A name \in DOMAIN obj.keys_to_concatenate :
              Shape(predictions.items[name]) = <<0>> \o obj.empty_shapes.val[name]
        /\ context = args.context

\* C6 witness: two configured keys, an empty candidate list and a non-empty
\* context: the unique-bodyparts output has shape (0, 1, 3).
C6_Witness ==
    /\ obj.type = "ConcatenateOutputs"
    /\ pc = "done"
    /\ PyLen(args.predictions) = 0
    /\ DOMAIN obj.keys_to_concatenate = {"bodyparts", "unique_bodyparts"}
    /\ Shape(predictions.items["unique_bodyparts"]) = <<0, 1, 3>>
    /\ "scales" \in DOMAIN context

\* the array of candidate i that output key k is made of
Cand(i, k) ==
    args.predictions.items[i][obj.keys_to_concatenate[k][1]][obj.keys_to_concatenate[k][2]]

RECURSIVE RowsBefore(_, _)
\* the number of rows candidates 1..i-1 carry for output key k
RowsBefore(i, k) ==
    IF i <= 1 THEN 0 ELSE RowsBefore(i - 1, k) + ArrLen(Cand(i - 1, k))

ConcatenatedList ==
    /\ obj.type = "ConcatenateOutputs"
    /\ pc = "done"
    /\ args.predictions.kind = "list"
    /\ PyLen(args.predictions) > 0

\* C7 as stated: every output array has one row per candidate, and row i is
\* the array of candidate i.
C7_OneRowPerCandidate ==
    ConcatenatedList =>
        \A k \in DOMAIN obj.keys_to_concatenate :
            /\ ArrLen(predictions.items[k]) = Len(args.predictions.items)
            /\ \A i \in 1..Len(args.predictions.items) :
                  Cand(i, k) = Array(predictions.items[k].tail,
                                     <<predictions.items[k].rows[i]>>)

\* C7 (amended): ConcatenateOutputs joins the per-candidate arrays along
\* their existing leading axis, in input order: the output keeps the
\* candidates' tail shape, has as many rows as the candidates have together,
\* and the rows of candidate i follow those of candidates 1..i-1; it has one
\* row per candidate, row i being candidate i's, exactly when every candidate
\* array has one leading row.
C7_ConcatenationInInputOrder ==
    ConcatenatedList =>
        \A k \in DOMAIN obj.keys_to_concatenate :
            LET out == predictions.items[k]
                n == Len(args.predictions.items)
            IN  /\ out.tail = Cand(1, k).tail
                /\ ArrLen(out) = RowsBefore(n + 1, k)
                /\ \A i \in 1..n : \A r \in 1..ArrLen(Cand(i, k)) :
                      out.rows[RowsBefore(i, k) + r] = Cand(i, k).rows[r]
                /\ (\A i \in 1..n : ArrLen(Cand(i, k)) = 1) <=> ArrLen(out) = n

\* C7 witness: two candidates, the first with two rows: three output rows.
C7_Witness ==
    /\ ConcatenatedList
    /\ Len(args.predictions.items) = 2
    /\ "bodyparts" \in DOMAIN obj.keys_to_concatenate
    /\ ArrLen(Cand(1, "bodyparts")) = 2
    /\ ArrLen(predictions.items["bodyparts"]) = 3

\* C8: ConcatenateOutputs(create_empty_outputs=True) raises ValueError from
\* its constructor whenever a key to concatenate has no empty-shape entry,
\* also when empty_shapes is not given; with every key covered it is
\* constructed.
C8_ConfigurationError ==
    (ctor.name = "ConcatenateOutputs" /\ ctor.args[3]) =>
        LET keys == DOMAIN KeysToConcatenate(ctor.args[1])
            shapes == EmptyShapes(ctor.args[2])
            covered == \A k \in keys : ~shapes.none /\ k \in DOMAIN shapes.val
        IN  /\ ~covered => (pc = "ctor_raised" /\ exc = "ValueError")
            /\ covered => pc # "ctor_raised"

PaddedDict ==
    /\ obj.type = "PadOutputs"
    /\ args.predictions.kind = "dict"

\* C9: PadOutputs, for a configured key present with n rows and target t:
\* n < t gives the n rows unaltered followed by t - n rows filled with the
\* configured pad_value, tail shape kept; n >= t leaves the array as it is;
\* padding the result again changes nothing.
C9_PadToTarget ==
    (PaddedDict /\ pc = "done") =>
        /\ \A name \in DOMAIN args.predictions.items \cap DOMAIN obj.max_individuals :
              LET in == args.predictions.items[name]
                  out == predictions.items[name]
                  t == obj.max_individuals[name]
              IN  IF ArrLen(in) < t
                  THEN /\ Shape(out) = <<t>> \o in.tail
                       /\ \A i \in 1..ArrLen(in) : out.rows[i] = in.rows[i]
                       /\ \A i \in (ArrLen(in) + 1)..t :
                             out.rows[i] = Fill(in.tail, obj.pad_value)
                  ELSE out = in
        /\ Apply(obj, predictions, context).predictions = predictions

\* C10: PadOutputs acts only on configured keys present in the outputs: an
\* output key without an entry in max_individuals is returned unchanged and
\* raises nothing, and a configured key absent from the outputs is ignored.
C10_PadOnlyConfiguredKeys ==
    (PaddedDict /\ Finished) =>
        /\ pc = "done"
        /\ DOMAIN predictions.items = DOMAIN args.predictions.items
        /\ \A name \in DOMAIN args.predictions.items \ DOMAIN obj.max_individuals :
              predictions.items[name] = args.predictions.items[name]

RescaledDict(mode) ==
    /\ obj.type = "RescaleAndOffset"
    /\ obj.mode = mode
    /\ args.predictions.kind = "dict"
    /\ {"scales", "offsets"} \subseteq DOMAIN args.context

\* the configured keys the stage finds in its input
RescaledKeys == DOMAIN args.predictions.items \cap obj.keys_to_rescale

\* C11: RescaleAndOffset in KEYPOINT_TD mode, on a configured key whose number
\* of rows, the number of scales and the number of offsets are not all equal,
\* raises ValueError and returns nothing.
C11_CardinalityCheck ==
    (RescaledDict("KEYPOINT_TD") /\ Finished
        /\ \E name \in RescaledKeys :
              \/ ArrLen(args.predictions.items[name]) # Len(args.context["scales"])
              \/ ArrLen(args.predictions.items[name]) # Len(args.context["offsets"])
              \/ Len(args.context["scales"]) # Len(args.context["offsets"])) =>
        /\ pc = "raised"
        /\ exc = "ValueError"
        /\ predictions.kind = "none"

\* C11 witness: more rows than scale/offset pairs, and the call has raised.
C11_Witness ==
    /\ RescaledDict("KEYPOINT_TD")
    /\ pc = "raised"
    /\ "bodyparts" \in RescaledKeys
    /\ ArrLen(args.predictions.items["bodyparts"]) = 2
    /\ Len(args.context["scales"]) = 1
    /\ Len(args.context["offsets"]) = 1

\* C11 witness: as many rows as scales, but one offset more.
C11_WitnessUneven ==
    /\ RescaledDict("KEYPOINT_TD")
    /\ pc = "raised"
    /\ "bodyparts" \in RescaledKeys
    /\ ArrLen(args.predictions.items["bodyparts"]) = 1
    /\ Len(args.context["scales"]) = 1
    /\ Len(args.context["offsets"]) = 2

\* point is p rescaled by the pair (scale, offset) in x and y, the channels
\* after them untouched
IsRescaledPoint(point, p, scale, offset) ==
    /\ Len(point) = Len(p)
    /\ point[1] = p[1] * scale[1] + offset[1]
    /\ point[2] = p[2] * scale[2] + offset[2]
    /\ \A j \in 3..Len(p) : point[j] = p[j]

\* C12: in KEYPOINT_TD mode with N candidates and N scale/offset pairs, every
\* keypoint of candidate i is x*scale_i[0] + offset_i[0], y*scale_i[1] +
\* offset_i[1] with candidate i's own pair, further channels are unchanged,
\* the shape is kept, and zero candidates give back the empty array as it was.
C12_PerCandidateRescale ==
    (RescaledDict("KEYPOINT_TD") /\ pc = "done") =>
        \A name \in RescaledKeys :
            LET in == args.predictions.items[name]
                out == predictions.items[name]
            IN  /\ Shape(out) = Shape(in)
                /\ ArrLen(in) = Len(args.context["scales"])
                /\ \A i \in 1..ArrLen(in) :
                      /\ Len(out.rows[i]) = Len(in.rows[i])
                      /\ \A k \in 1..Len(in.rows[i]) :
                            IsRescaledPoint(out.rows[i][k], in.rows[i][k],
                                            args.context["scales"][i],
                                            args.context["offsets"][i])
                /\ ArrLen(in) = 0 => out = in

\* C12 witness: two candidates, each rescaled with its own pair.
C12_Witness ==
    /\ RescaledDict("KEYPOINT_TD")
    /\ pc = "done"
    /\ "bodyparts" \in RescaledKeys
    /\ ArrLen(args.predictions.items["bodyparts"]) = 2
    /\ args.context["scales"][1] # args.context["scales"][2]
    /\ predictions.items["bodyparts"] # args.predictions.items["bodyparts"]

\* C13: in KEYPOINT mode with one global pair, every keypoint of a configured
\* array becomes (x*sx + ox, y*sy + oy, further channels unchanged); with
\* scale (1, 1) and offset (0, 0) the output equals the input.
C13_GlobalKeypointRescale ==
    (RescaledDict("KEYPOINT") /\ pc = "done") =>
        \A name \in RescaledKeys :
            LET in == args.predictions.items[name]
                out == predictions.items[name]
            IN  /\ Shape(out) = Shape(in)
                /\ \A i \in 1..ArrLen(in) :
                      /\ Len(out.rows[i]) = Len(in.rows[i])
                      /\ \A k \in 1..Len(in.rows[i]) :
                            IsRescaledPoint(out.rows[i][k], in.rows[i][k],
                                            args.context["scales"],
                                            args.context["offsets"])
                /\ (/\ args.context["scales"] = <<1, 1>>
                    /\ args.context["offsets"] = <<0, 0>>) => out = in

\* C13 witness: two individuals rescaled with the global pair (2, 3), (10, 20).
C13_Witness ==
    /\ RescaledDict("KEYPOINT")
    /\ pc = "done"
    /\ "bodyparts" \in RescaledKeys
    /\ args.context["scales"] = <<2, 3>>
    /\ ArrLen(args.predictions.items["bodyparts"]) = 2
    /\ predictions.items["bodyparts"] # args.predictions.items["bodyparts"]

\* C14: in BBOX_XYWH mode with one global pair, every row (x, y, w, h) of a
\* configured array becomes (x*sx + ox, y*sy + oy, w*sx, h*sy): the extents
\* are scaled and never translated.
C14_BboxRescale ==
    (RescaledDict("BBOX_XYWH") /\ pc = "done") =>
        \A name \in RescaledKeys :
            LET in == args.predictions.items[name]
                out == predictions.items[name]
                sc == args.context["scales"]
                off == args.context["offsets"]
            IN  /\ Shape(out) = Shape(in)
                /\ \A i \in 1..ArrLen(in) :
                      out.rows[i] = <<in.rows[i][1] * sc[1] + off[1],
                                      in.rows[i][2] * sc[2] + off[2],
                                      in.rows[i][3] * sc[1],
                                      in.rows[i][4] * sc[2]>>

\* C14 witness: a box rescaled with the global pair (2, 3), (10, 20).
C14_Witness ==
    /\ RescaledDict("BBOX_XYWH")
    /\ pc = "done"
    /\ "bboxes" \in RescaledKeys
    /\ args.context["scales"] = <<2, 3>>
    /\ ArrLen(args.predictions.items["bboxes"]) >= 1
    /\ predictions.items["bboxes"].rows[1][3]
           = 2 * args.predictions.items["bboxes"].rows[1][3]

\* a finished call of a single RescaleAndOffset stage on an output dict
RescaleReturned ==
    /\ obj.type = "RescaleAndOffset"
    /\ pc = "done"
    /\ args.predictions.kind = "dict"

\* The predictions in hand, where it is the caller's object or holds the
\* caller's array objects, shows what the caller sees.
EffectAgreesWithCall ==
    pc \in {"running", "done"} =>
        /\ caller.same => caller.mapping = predictions.items
        /\ \A k \in caller.shared :
              /\ k \in DOMAIN predictions.items
              /\ predictions.items[k] = caller.arrays[k]

\* C15 as stated: RescaleAndOffset never returns its input mapping nor any
\* array object of it, also in the zero-candidate KEYPOINT_TD case and when
\* the context has neither scales nor offsets.
C15_NeverAliases ==
    RescaleReturned => (~caller.same /\ caller.shared = {})

\* C15 amended: RescaleAndOffset never modifies its input.  Given scales or
\* offsets it returns a new mapping in which every array is a new object,
\* except that a configured array with zero rows in KEYPOINT_TD mode is the
\* input's array object; given neither scales nor offsets it returns the
\* predictions object it was handed, with the arrays it holds.
C15_CopiesWhenRescaling ==
    RescaleReturned =>
        /\ caller.mapping = args.predictions.items
        /\ caller.arrays = args.predictions.items
        /\ IF "scales" \notin DOMAIN args.context /\ "offsets" \notin DOMAIN args.context
           THEN /\ caller.same
                /\ caller.shared = DOMAIN args.predictions.items
           ELSE /\ ~caller.same
                /\ \A name \in DOMAIN args.predictions.items :
                      name \in caller.shared
                          <=> /\ name \in obj.keys_to_rescale
                              /\ obj.mode = "KEYPOINT_TD"
                              /\ ArrLen(args.predictions.items[name]) = 0

\* C15 witness: a KEYPOINT_TD stage given zero crops hands back the input's
\* empty bodyparts array and copies of the boxes.
C15_Witness ==
    /\ RescaleReturned
    /\ obj.mode = "KEYPOINT_TD"
    /\ "scales" \in DOMAIN args.context
    /\ caller.shared = {"bodyparts"}
    /\ "bboxes" \in DOMAIN predictions.items

\* a finished call of a single BboxToCoco stage on an output dict
CocoReturned ==
    /\ obj.type = "BboxToCoco"
    /\ pc = "done"
    /\ args.predictions.kind = "dict"

\* C16: BboxToCoco turns every row (x1, y1, x2, y2) of each configured array
\* into (x1, y1, x2 - x1, y2 - y1) and returns every other key as it was;
\* (10, 20, 50, 80) becomes (10, 20, 40, 60); a second application to an array
\* with a box whose corner is not the origin gives neither the first result
\* nor the original.
C16_BboxToCoco ==
    /\ ToCoco(Array(<<4>>, <<<<10, 20, 50, 80>>>>)) = Array(<<4>>, <<<<10, 20, 40, 60>>>>)
    /\ CocoReturned =>
          LET configured == {obj.bounding_box_keys[i] : i \in 1..Len(obj.bounding_box_keys)}
              twice == Apply(obj, predictions, context)
          IN  /\ DOMAIN predictions.items = DOMAIN args.predictions.items
              /\ \A k \in DOMAIN predictions.items \ configured :
                    predictions.items[k] = args.predictions.items[k]
              /\ \A k \in configured :
                    LET in == args.predictions.items[k]
                        out == predictions.items[k]
                    IN  /\ Shape(out) = Shape(in)
                        /\ \A i \in 1..ArrLen(in) :
                              out.rows[i] = <<in.rows[i][1], in.rows[i][2],
                                              in.rows[i][3] - in.rows[i][1],
                                              in.rows[i][4] - in.rows[i][2]>>
                        /\ (\E i \in 1..ArrLen(in) :
                               in.rows[i][1] # 0 \/ in.rows[i][2] # 0) =>
                              /\ twice.exc = "none"
                              /\ twice.predictions.items[k] # out
                              /\ twice.predictions.items[k] # in

\* C16 witness: two boxes converted, the scores next to them returned as they
\* were.
C16_Witness ==
    /\ CocoReturned
    /\ obj.bounding_box_keys = <<"bboxes">>
    /\ ArrLen(args.predictions.items["bboxes"]) = 2
    /\ predictions.items["bboxes"].rows[2][3] = 40
    /\ "bbox_scores" \in DOMAIN predictions.items

\* C17 as stated: no call of a stage or of a composed pipeline changes the
\* caller's predictions mapping, the arrays it holds or the context.
C17_StagesArePure ==
    Finished =>
        /\ caller.mapping = args.predictions.items
        /\ caller.arrays = args.predictions.items
        /\ pc = "done" => context = args.context

\* the stage types among the components of a ComposePostprocessor
ComponentTypes == {obj.components[i].type : i \in 1..Len(obj.components)}

\* C17 amended: no stage changes the context.  ConcatenateOutputs and
\* RescaleAndOffset leave the caller's predictions mapping and its arrays as
\* they were, and so does any pipeline applied to a candidate list or starting
\* with ConcatenateOutputs.  PadOutputs and AddContextToOutput leave the arrays
\* as they were but store their results in the caller's mapping, which is the
\* object they return.  BboxToCoco overwrites the configured arrays of the
\* caller's mapping and returns that mapping.  A pipeline without BboxToCoco
\* leaves the caller's arrays as they were.
C17_InPlaceEffects ==
    Finished =>
        /\ pc = "done" => context = args.context
        /\ obj.type \in {"ConcatenateOutputs", "RescaleAndOffset"} =>
              /\ caller.mapping = args.predictions.items
              /\ caller.arrays = args.predictions.items
        /\ (obj.type \in {"PadOutputs", "AddContextToOutput"}
                /\ args.predictions.kind = "dict") =>
              /\ caller.arrays = args.predictions.items
              /\ pc = "done" => (caller.same /\ caller.mapping = predictions.items)
        /\ (obj.type = "BboxToCoco" /\ args.predictions.kind = "dict" /\ pc = "done") =>
              /\ caller.same
              /\ caller.mapping = predictions.items
              /\ caller.arrays = predictions.items
        /\ IsCompose =>
              /\ (\/ args.predictions.kind = "list"
                  \/ (obj.components # <<>>
                         /\ obj.components[1].type = "ConcatenateOutputs")) =>
                    /\ caller.mapping = args.predictions.items
                    /\ caller.arrays = args.predictions.items
              /\ "BboxToCoco" \notin ComponentTypes =>
                    caller.arrays = args.predictions.items

\* C17 witness: a PadOutputs stage returned the caller's dict with a padded
\* array stored in it.
C17_Witness ==
    /\ obj.type = "PadOutputs"
    /\ pc = "done"
    /\ args.predictions.kind = "dict"
    /\ caller.same
    /\ caller.mapping # args.predictions.items
    /\ caller.arrays = args.predictions.items

\* C18: every successfully constructed ConcatenateOutputs, also one built
\* without empty shapes and with create_empty_outputs left False, returns a
\* zero-length array for each configured key when called on an empty
\* candidate list.
C18_EveryInstanceHandlesEmpty ==
    (obj.type = "ConcatenateOutputs" /\ Finished /\ args.predictions.kind = "list"
        /\ PyLen(args.predictions) = 0) =>
        /\ pc = "done"
        /\ predictions.kind = "dict"
        /\ DOMAIN predictions.items = DOMAIN obj.keys_to_concatenate
        /\ \A name \in DOMAIN predictions.items : ArrLen(predictions.items[name]) = 0

\* C19: VideoIterator._index is the number of frames __next__ returned since
\* the start of the current pass, whatever calls were made; when a pass is
\* exhausted the index and the reader are both back at 0; every returned
\* context is a deep copy of the entry at the position of its frame among the
\* frames returned in the pass; an IndexError is raised only when the context
\* has no entry for the index; and in a pass in which every frame read was
\* returned, which is every pass whose context has one entry per frame, the
\* k-th frame of the video is returned with entry k of the context.
C19_IndexAligned ==
    /\ _index = Len(returned)
    /\ reader = _index + skipped
    /\ result.kind = "StopIteration" =>
          /\ _index = 0
          /\ reader = 0
    /\ result.kind = "IndexError" =>
          /\ ~_context.none
          /\ Len(_context.val) <= _index
          /\ Len(_context.val) < NFrames
    /\ \A k \in 1..Len(returned) :
          ~returned[k].context.none =>
              /\ returned[k].context.val.entry = k - 1
              /\ returned[k].context.val.held_by = "result"
    /\ skipped = 0 =>
          \A k \in 1..Len(returned) : returned[k].frame = k - 1

\* C19 witness: the detector pass returned every frame without a context,
\* set_context stored one entry per frame, and the pose pass has returned the
\* last frame with the last entry.
C19_Witness ==
    /\ previous = [frames |-> NFrames, contexts |-> 0]
    /\ Len(returned) = NFrames
    /\ result.kind = "pair"
    /\ result.frame = NFrames - 1
    /\ result.context.entry = NFrames - 1

====
